---- MODULE Spec2Model ----
(***************************************************************************)
(* ExtendedSparseOptimizer (graph_slam): the pose-graph driver that stages *)
(* vertices and edges, commits them to the solver and to the shadow        *)
(* covariance graph, and realizes loop-closure candidates through GICP.    *)
(*                                                                         *)
(* Poses are 1-D translations on a ring of positions (composition is +,    *)
(* inverse is unary minus, both modulo the ring's size); a 6x6 covariance  *)
(* is the pair <<first block, second block>> of its two diagonal 3x3       *)
(* blocks.  Objects are named by their vertex id; an edge is [src, tgt, n],*)
(* n telling apart parallel edges between the same pair.                   *)
(***************************************************************************)
EXTENDS Integers, FiniteSets, Sequences, TLC

\* std::numeric_limits<int>::max(), with the int narrowed to a few values
IntMax == 3
\* gicp_config.max_sensor_distance
MaxSensorDistance == 0
\* the greatest count tryBestEdgeCandidates is called with
MaxCount == 2

NULL == -1
NaN == -99

Ids == 0 .. (IntMax - 1)
Poses == {0, 1}
Identity == 0
CovIdentity == <<1, 1>>

\* the transformations a caller hands to addVertex: valid ones and ones with NaN
ValidTransformations ==
    { [pose |-> 0, cov |-> <<1, 1>>], [pose |-> 1, cov |-> <<1, 2>>] }
NanTransformations ==
    { [pose |-> NaN, cov |-> <<1, 1>>], [pose |-> 0, cov |-> <<NaN, 1>>] }
Transformations == ValidTransformations \cup NanTransformations

VARIABLES
    next_vertex_id,                  \* int
    initialized,                     \* bool
    last_vertex,                     \* id of the vertex last_vertex points to, or NULL
    odometry_pose_last_vertex,
    odometry_covariance_last_vertex,
    new_edges_added,
    map_update_necessary,
    vertices,                        \* _vertices of the primary graph: id -> vertex
    edges,                           \* _edges of the primary graph
    activeVertices,                  \* _activeVertices (ids)
    activeEdges,                     \* _activeEdges
    vertices_to_add,                 \* staged vertices (ids)
    edges_to_add,                    \* staged edges; freed = the object was deleted
    cov_vertices,                    \* cov_graph: id -> fixed
    cov_edges,                       \* cov_graph: edges as <<id, id>>
    env_frames,                      \* ids of the vertices whose cloud has a frame node under the root
    use_mls,                         \* bool
    projection,                      \* bool: projection.get() != 0
    mls_attached,                    \* bool: env holds the MLS grid, its frame node and the projection
    mls_inputs,                      \* ids of the vertices whose cloud is an input of the projection
    use_vertex_grid,                 \* bool
    vertex_grid,                     \* the VertexGrid it points to: {} or {grid}
    gicp_config,                     \* gicp_config.max_sensor_distance
    last_call                        \* what the last call on the instance did and handed back

vars == <<next_vertex_id, initialized, last_vertex, odometry_pose_last_vertex,
          odometry_covariance_last_vertex, new_edges_added, map_update_necessary,
          vertices, edges, activeVertices, activeEdges, vertices_to_add,
          edges_to_add, cov_vertices, cov_edges, env_frames, use_mls, projection,
          mls_attached, mls_inputs, use_vertex_grid, vertex_grid, gicp_config,
          last_call>>

\* the driver's own fields, as initValues sets them
driver == <<next_vertex_id, initialized, last_vertex, odometry_pose_last_vertex,
            odometry_covariance_last_vertex, new_edges_added, map_update_necessary>>
graph == <<vertices, edges, activeVertices, activeEdges>>
staging == <<vertices_to_add, edges_to_add>>
shadow == <<cov_vertices, cov_edges>>
mls == <<use_mls, projection, mls_attached, mls_inputs>>
grid == <<use_vertex_grid, vertex_grid>>
settings == <<mls, grid, gicp_config>>

-----------------------------------------------------------------------------
(* Algebra *)

Ring == Cardinality(Poses)
Compose(a, b) == (a + b) % Ring
Inverse(a) == (Ring - a) % Ring

is_nan(m) == m = NaN

\* swaps the two 3x3 diagonal blocks
switchEnvireG2oCov(c) == <<c[2], c[1]>>

CovHasNan(c) == is_nan(c[1]) \/ is_nan(c[2])

\* the norm of the difference of two translations (the shorter way round the ring)
Norm(a, b) ==
    LET d == Compose(a, Inverse(b)) IN IF Ring - d < d THEN Ring - d ELSE d

-----------------------------------------------------------------------------
(* The primary graph (g2o::SparseOptimizer) *)

VertexIds == DOMAIN vertices

NoCandidates == [t \in {} |-> [distance |-> 0, stale |-> FALSE]]

\* new VertexSE3_GICP with the cloud attached
NewVertex == [fixed |-> FALSE, estimate |-> Identity, cloud |-> TRUE,
              has_run |-> FALSE,
              candidates |-> NoCandidates]

\* SparseOptimizer::addVertex accepts a vertex whose id is not in the graph
GraphAcceptsVertex(id, ok) == ok /\ id \notin VertexIds

\* what the collaborators of one addVertex call do: the graph refuses the
\* vertex, GICP fails on the sequential edge, the graph refuses the edge, or
\* none of these
AddOutcomes == {"fine", "vertex_refused", "gicp_fails", "edge_refused"}

WithVertex(vs, id, v) == [i \in DOMAIN vs \cup {id} |-> IF i = id THEN v ELSE vs[i]]

WithoutVertex(vs, id) == [i \in DOMAIN vs \ {id} |-> vs[i]]

\* the edges of the graph between a and b, in either direction
EdgesBetween(es, a, b) ==
    { e \in es : (e.src = a /\ e.tgt = b) \/ (e.src = b /\ e.tgt = a) }

\* new EdgeSE3_GICP from s to t; kind tells who made it: "sequential" is
\* addVertex, "loop" is tryBestEdgeCandidates
NewEdge(es, s, t, kind) ==
    [src |-> s, tgt |-> t, kind |-> kind, n |-> Cardinality(EdgesBetween(es, s, t))]

\* an edge pointer held in edges_to_add or _activeEdges; freed: the pointer
\* dangles (the edge was deleted)
Staged(e) == [src |-> e.src, tgt |-> e.tgt, kind |-> e.kind, n |-> e.n, freed |-> FALSE]
Freed(e) == [src |-> e.src, tgt |-> e.tgt, kind |-> e.kind, n |-> e.n, freed |-> TRUE]
EdgeOf(se) == [src |-> se.src, tgt |-> se.tgt, kind |-> se.kind, n |-> se.n]

Alive == last_call.result # "abort"

\* tested: the candidates tryBestEdgeCandidates counted as tested; call, run:
\* what optimize asked of the solver of the primary graph; adjusted: the pose
\* adjustOdometryPose hands back
ReturnedTested(op, result, n) ==
    last_call' = [op |-> op, result |-> result, tested |-> n,
                  call |-> "none", run |-> "none", adjusted |-> NULL]
Returned(op, result) == ReturnedTested(op, result, 0)
ReturnedSolver(op, result, c) ==
    last_call' = [op |-> op, result |-> result, tested |-> 0,
                  call |-> c.call, run |-> c.run, adjusted |-> NULL]
ReturnedPose(op, result, pose) ==
    last_call' = [op |-> op, result |-> result, tested |-> 0,
                  call |-> "none", run |-> "none", adjusted |-> pose]

-----------------------------------------------------------------------------
Init ==
    /\ next_vertex_id = 0
    /\ initialized = FALSE
    /\ last_vertex = NULL
    /\ odometry_pose_last_vertex = Identity
    /\ odometry_covariance_last_vertex = CovIdentity
    /\ new_edges_added = FALSE
    /\ map_update_necessary = FALSE
    /\ vertices = [i \in {} |-> NewVertex]
    /\ edges = {}
    /\ activeVertices = {}
    /\ activeEdges = {}
    /\ vertices_to_add = {}
    /\ edges_to_add = {}
    /\ cov_vertices = [i \in {} |-> FALSE]
    /\ cov_edges = {}
    /\ env_frames = {}
    /\ use_mls = FALSE
    /\ projection = FALSE
    /\ mls_attached = FALSE
    /\ mls_inputs = {}
    /\ use_vertex_grid = FALSE
    /\ vertex_grid = {}
    /\ gicp_config = MaxSensorDistance
    /\ last_call = [op |-> "new", result |-> "ok", tested |-> 0,
                    call |-> "none", run |-> "none", adjusted |-> NULL]

-----------------------------------------------------------------------------
(* addVertex *)

\* the id the vertex under construction gets
AttemptedId == next_vertex_id

IdsExhausted_OneLate == next_vertex_id = IntMax + 1
\* next_vertex_id == std::numeric_limits<int>::max()
IdsExhausted == next_vertex_id = IntMax

IsFirstVertex_Inverted == next_vertex_id = 0 \/ last_vertex # NULL
IsFirstVertex == next_vertex_id = 0 \/ last_vertex = NULL

BadInput_PoseOnly(t) == is_nan(t.pose)
\* the two NaN checks on the odometry pose and covariance
BadInput(t) ==
    is_nan(t.pose) \/ CovHasNan(switchEnvireG2oCov(t.cov))

\* the estimate a vertex following last_vertex starts with
SequentialEstimate(pose) ==
    Compose(vertices[last_vertex].estimate,
            Compose(Inverse(odometry_pose_last_vertex), pose))

SequentialEdge_Reversed == NewEdge(edges, AttemptedId, last_vertex, "sequential")
\* the edge between the last and the new vertex
SequentialEdge == NewEdge(edges, last_vertex, AttemptedId, "sequential")

\* t: the transformation; o: what the graph and GICP do in this call
\* env->addInput(projection, cloud) when the MLS map is in use
InputsWith(id) == IF use_mls THEN mls_inputs \cup {id} ELSE mls_inputs

AddVertex(t, o) ==
    LET vertex_ok == o # "vertex_refused"
        gicp_ok == o # "gicp_fails"
        edge_ok == o # "edge_refused"
    IN
    /\ Alive
    /\ UNCHANGED <<use_mls, projection, mls_attached, grid, gicp_config>>
    /\ IF IdsExhausted
       THEN /\ Returned("addVertex", "Overflow")
            /\ UNCHANGED <<driver, graph, staging, shadow, env_frames, mls_inputs>>
       ELSE IF BadInput(t)
       THEN /\ Returned("addVertex", "BadInput")
            /\ UNCHANGED <<driver, graph, staging, shadow, env_frames, mls_inputs>>
       ELSE IF ~GraphAcceptsVertex(AttemptedId, vertex_ok)
       THEN /\ Returned("addVertex", "vertex_rejected")
            /\ UNCHANGED <<driver, graph, staging, shadow, env_frames, mls_inputs>>
       ELSE IF IsFirstVertex
       THEN /\ vertices' = WithVertex(vertices, AttemptedId,
                             [NewVertex EXCEPT !.fixed = TRUE, !.estimate = t.pose])
            /\ map_update_necessary' = TRUE
            /\ env_frames' = env_frames \cup {AttemptedId}
            /\ mls_inputs' = InputsWith(AttemptedId)
            /\ vertices_to_add' = vertices_to_add \cup {AttemptedId}
            /\ odometry_pose_last_vertex' = t.pose
            /\ odometry_covariance_last_vertex' = switchEnvireG2oCov(t.cov)
            /\ last_vertex' = AttemptedId
            /\ next_vertex_id' = next_vertex_id + 1
            /\ Returned("addVertex", "true")
            /\ UNCHANGED <<initialized, new_edges_added, edges, activeVertices,
                           activeEdges, edges_to_add, shadow>>
       ELSE IF ~gicp_ok
       THEN \* the exception leaves the function with the vertex in the graph
            /\ vertices' = WithVertex(vertices, AttemptedId,
                             [NewVertex EXCEPT !.estimate = SequentialEstimate(t.pose)])
            /\ Returned("addVertex", "GicpError")
            /\ UNCHANGED <<driver, edges, activeVertices, activeEdges, staging,
                           shadow, env_frames, mls_inputs>>
       ELSE IF ~edge_ok
       THEN \* removeVertex takes the vertex out again
            /\ Returned("addVertex", "edge_rejected")
            /\ UNCHANGED <<driver, graph, staging, shadow, env_frames, mls_inputs>>
       ELSE LET edge == SequentialEdge IN
            /\ vertices' = WithVertex(vertices, AttemptedId,
                             [NewVertex EXCEPT !.estimate = SequentialEstimate(t.pose)])
            /\ edges' = edges \cup {edge}
            /\ edges_to_add' = edges_to_add \cup {Staged(edge)}
            /\ env_frames' = env_frames \cup {AttemptedId}
            /\ mls_inputs' = InputsWith(AttemptedId)
            /\ vertices_to_add' = vertices_to_add \cup {AttemptedId}
            /\ odometry_pose_last_vertex' = t.pose
            /\ odometry_covariance_last_vertex' = switchEnvireG2oCov(t.cov)
            /\ last_vertex' = AttemptedId
            /\ next_vertex_id' = next_vertex_id + 1
            /\ Returned("addVertex", "true")
            /\ UNCHANGED <<initialized, new_edges_added, map_update_necessary,
                           activeVertices, activeEdges, shadow>>

-----------------------------------------------------------------------------
(* clear *)

Clear ==
    /\ Alive
    /\ next_vertex_id' = 0
    /\ initialized' = FALSE
    /\ odometry_pose_last_vertex' = Identity
    /\ odometry_covariance_last_vertex' = CovIdentity
    /\ last_vertex' = NULL
    /\ new_edges_added' = FALSE
    /\ map_update_necessary' = FALSE
    /\ use_mls' = FALSE
    /\ use_vertex_grid' = FALSE
    /\ env_frames' = {}
    /\ mls_attached' = FALSE
    /\ mls_inputs' = {}
    /\ vertex_grid' = {}
    /\ vertices_to_add' = {}
    /\ edges_to_add' = {}
    /\ cov_vertices' = [i \in {} |-> FALSE]
    /\ cov_edges' = {}
    /\ vertices' = [i \in {} |-> NewVertex]
    /\ edges' = {}
    /\ activeVertices' = {}
    /\ activeEdges' = {}
    /\ UNCHANGED <<projection, gicp_config>>
    /\ Returned("clear", "ok")

-----------------------------------------------------------------------------
(* removePointcloudFromVertex, removeVertex *)

\* a vertex the solver works on
isHandledByOptimizer(id) == id \in activeVertices

\* the guard of removePointcloudFromVertex
CanDetach(id) == id \in VertexIds /\ isHandledByOptimizer(id) /\ vertices[id].cloud

DetachedFrom_RemovesVertex(vs, ids) == [i \in DOMAIN vs \ ids |-> vs[i]]
\* detachPointCloud on the vertices ids
DetachedFrom(vs, ids) ==
    [i \in DOMAIN vs |-> IF i \in ids THEN [vs[i] EXCEPT !.cloud = FALSE] ELSE vs[i]]

\* the body of removePointcloudFromVertex for every id of ids that passes its guard
DetachPointclouds(ids) ==
    LET detached == { id \in ids : CanDetach(id) } IN
    /\ vertices' = DetachedFrom(vertices, detached)
    /\ env_frames' = env_frames \ detached
    /\ mls_inputs' = IF use_mls THEN mls_inputs \ detached ELSE mls_inputs

RemovePointcloudFromVertex(id) ==
    /\ Alive
    /\ DetachPointclouds({id})
    /\ IF CanDetach(id)
       THEN Returned("removePointcloudFromVertex", "true")
       ELSE Returned("removePointcloudFromVertex", "false")
    /\ UNCHANGED <<driver, edges, activeVertices, activeEdges, staging, shadow,
                   use_mls, projection, mls_attached, grid, gicp_config>>

\* removeVertex only detaches the cloud (the removal itself is not written)
RemoveVertex(id) ==
    /\ Alive
    /\ IF id \in VertexIds /\ isHandledByOptimizer(id)
       THEN DetachPointclouds({id})
       ELSE UNCHANGED <<vertices, env_frames, mls_inputs>>
    /\ Returned("removeVertex", "false")
    /\ UNCHANGED <<driver, edges, activeVertices, activeEdges, staging, shadow,
                   use_mls, projection, mls_attached, grid, gicp_config>>

-----------------------------------------------------------------------------
(* VertexGrid *)

\* the greatest max_vertices_per_cell setupMaxVertexGrid is called with
MaxVerticesPerCell == 2

\* a grid with one cell per position: the ids of a cell, oldest first, and the
\* ids marked for eviction
NewVertexGrid(max) ==
    [max |-> max, cells |-> [p \in Poses |-> <<>>], evict |-> {}]

setMaxVerticesPerCell(g, max) == [g EXCEPT !.max = max]

\* VertexGrid::addVertex: the vertex enters its cell; the oldest vertices of a
\* cell over max are marked for eviction
GridAddVertex(g, id, pos) ==
    LET cell == Append(g.cells[pos], id)
        over == IF Len(cell) > g.max THEN Len(cell) - g.max ELSE 0
    IN  [g EXCEPT !.cells[pos] = SubSeq(cell, over + 1, Len(cell)),
                  !.evict = g.evict \cup { cell[k] : k \in 1 .. over }]

\* VertexGrid::removeVertices hands back the eviction list and clears it
removeVertices(g) == [g EXCEPT !.evict = {}]

\* the orders a std::set of pointers may hand its elements out in
Orders(S) ==
    { f \in [1 .. Cardinality(S) -> S] : \A i, j \in DOMAIN f : f[i] = f[j] => i = j }

\* the loop over vertices_to_add that fills the grid, vs the vertices after the run
RECURSIVE GridAddVertices(_, _, _)
GridAddVertices(g, order, vs) ==
    IF order = <<>> THEN g
    ELSE GridAddVertices(GridAddVertex(g, Head(order), vs[Head(order)].estimate),
                         Tail(order), vs)

SetupMaxVertexGrid(max) ==
    /\ Alive
    /\ vertex_grid' = { setMaxVerticesPerCell(g, max) :
                          g \in IF vertex_grid = {} THEN {NewVertexGrid(max)} ELSE vertex_grid }
    /\ use_vertex_grid' = IF vertex_grid = {} THEN TRUE ELSE use_vertex_grid
    /\ Returned("setupMaxVertexGrid", "ok")
    /\ UNCHANGED <<driver, graph, staging, shadow, env_frames, mls, gicp_config>>

RemoveVerticesFromGrid ==
    /\ Alive
    /\ IF ~use_vertex_grid
       THEN UNCHANGED <<vertices, env_frames, mls_inputs, vertex_grid>>
       ELSE /\ DetachPointclouds(UNION { g.evict : g \in vertex_grid })
            /\ vertex_grid' = { removeVertices(g) : g \in vertex_grid }
    /\ Returned("removeVerticesFromGrid", "ok")
    /\ UNCHANGED <<driver, edges, activeVertices, activeEdges, staging, shadow,
                   use_mls, projection, mls_attached, use_vertex_grid, gicp_config>>

-----------------------------------------------------------------------------
(* optimize *)

NothingToOptimize_NoneStaged == activeVertices = {} /\ vertices_to_add = {}
\* the guard of the early return
NothingToOptimize == activeVertices = {} /\ Cardinality(vertices_to_add) < 2

HasFreed(es) == \E e \in es : e.freed

\* cov_graph.addVertex for every staged vertex (an id it already holds is refused)
MirrorVertices(cv, staged) ==
    [i \in DOMAIN cv \cup staged |-> IF i \in DOMAIN cv THEN cv[i] ELSE vertices[i].fixed]

\* cov_graph.addEdge for every staged edge, endpoints resolved by id
MirrorEdges(ce, staged) == ce \cup { <<e.src, e.tgt>> : e \in staged }

\* SparseOptimizer::initializeOptimization: the vertices with an edge become active
InitActiveVertices == { v \in VertexIds : \E e \in edges : e.src = v \/ e.tgt = v }
InitActiveEdges == { Staged(e) : e \in edges }
InitializeOptimizationOk(solver_ok) ==
    solver_ok /\ edges # {} /\ InitActiveVertices # {}

\* SparseOptimizer::updateInitialization(vset, eset)
UpdateActiveVertices == activeVertices \cup { v \in vertices_to_add : ~vertices[v].fixed }
UpdateActiveEdges ==
    activeEdges \cup { e \in edges_to_add :
                         ~(vertices[e.src].fixed /\ vertices[e.tgt].fixed) }

\* SparseOptimizer::optimize moves the active vertices that are not fixed
SolverRun(act, est) ==
    [i \in VertexIds |->
        IF i \in act /\ ~vertices[i].fixed /\ i \in DOMAIN est
        THEN [vertices[i] EXCEPT !.estimate = est[i]]
        ELSE vertices[i]]

\* the vertices a solver run of this call may move
Movable ==
    { v \in VertexIds : ~vertices[v].fixed /\ (v \in activeVertices \/ v \in vertices_to_add) }

\* what the collaborators of one optimize call do: initialize/update fails, a
\* read of a freed staged or active edge ends the process, or neither (such a
\* read may also go unnoticed)
OptimizeOutcomes == {"fine", "solver_fails", "crash"}

RunMode(online) == IF online THEN "online" ELSE "offline"

SolverCall_CallersFlag(online) ==
    IF initialized
    THEN [call |-> "updateInitialization", run |-> RunMode(online)]
    ELSE [call |-> "initializeOptimization", run |-> RunMode(online)]
\* what optimize asks of the solver of the primary graph when something is
\* staged: the first time initializeOptimization and an offline run, later
\* updateInitialization and a run with the caller's flag
SolverCall(online) ==
    IF initialized
    THEN [call |-> "updateInitialization", run |-> RunMode(online)]
    ELSE [call |-> "initializeOptimization", run |-> "offline"]

OptimizeThrows_ClearsStaging(act, actE, c) ==
    /\ activeVertices' = act
    /\ activeEdges' = actE
    /\ vertices_to_add' = {}
    /\ edges_to_add' = {}
    /\ ReturnedSolver("optimize", "OptimizerError", [c EXCEPT !.run = "none"])
    /\ UNCHANGED <<driver, vertices, edges, env_frames, settings>>
\* initializeOptimization or updateInitialization fails: the exception leaves
\* optimize with the solver's containers as act, actE
OptimizeThrows(act, actE, c) ==
    /\ activeVertices' = act
    /\ activeEdges' = actE
    /\ ReturnedSolver("optimize", "OptimizerError", [c EXCEPT !.run = "none"])
    /\ UNCHANGED <<driver, vertices, edges, staging, env_frames, settings>>

GridAfterCommit_BeforeRun(vs, order) ==
    IF use_vertex_grid
    THEN { GridAddVertices(g, order, vertices) : g \in vertex_grid }
    ELSE vertex_grid
\* the grid after the loop over vertices_to_add, vs the vertices after the run
GridAfterCommit(vs, order) ==
    IF use_vertex_grid
    THEN { GridAddVertices(g, order, vs) : g \in vertex_grid }
    ELSE vertex_grid

OptimizeCommits_KeepsEdges(act, actE, est, c, order) ==
    /\ initialized' = TRUE
    /\ activeVertices' = act
    /\ activeEdges' = actE
    /\ vertices' = SolverRun(act, est)
    /\ vertex_grid' = GridAfterCommit(SolverRun(act, est), order)
    /\ vertices_to_add' = {}
    /\ map_update_necessary' = TRUE
    /\ ReturnedSolver("optimize", "err", c)
    /\ UNCHANGED <<next_vertex_id, last_vertex, odometry_pose_last_vertex,
                   odometry_covariance_last_vertex, new_edges_added, edges,
                   edges_to_add, env_frames, mls, use_vertex_grid, gicp_config>>
\* the primary graph is initialized or updated and run, the staged vertices
\* enter the grid, then the staging is cleared
OptimizeCommits(act, actE, est, c, order) ==
    /\ initialized' = TRUE
    /\ activeVertices' = act
    /\ activeEdges' = actE
    /\ vertices' = SolverRun(act, est)
    /\ vertex_grid' = GridAfterCommit(SolverRun(act, est), order)
    /\ vertices_to_add' = {}
    /\ edges_to_add' = {}
    /\ map_update_necessary' = TRUE
    /\ ReturnedSolver("optimize", "err", c)
    /\ UNCHANGED <<next_vertex_id, last_vertex, odometry_pose_last_vertex,
                   odometry_covariance_last_vertex, new_edges_added, edges, env_frames,
                   mls, use_vertex_grid, gicp_config>>

\* the orders the grid loop may take the staged vertices in
GridOrders == IF use_vertex_grid THEN Orders(vertices_to_add) ELSE {<<>>}

\* online: the caller's flag; o: what the solver and the memory do in this
\* call; est: the estimates the solver ends with; order: the order of the
\* grid loop
Optimize(online, o, est, order) ==
    LET solver_ok == o # "solver_fails"
        survives == o # "crash"
    IN
    /\ Alive
    /\ IF NothingToOptimize
       THEN /\ Returned("optimize", "0")
            /\ UNCHANGED <<driver, graph, staging, shadow, env_frames, settings>>
       ELSE IF (HasFreed(edges_to_add) \/ HasFreed(activeEdges)) /\ ~survives
       THEN /\ Returned("optimize", "abort")
            /\ UNCHANGED <<driver, graph, staging, shadow, env_frames, settings>>
       ELSE IF vertices_to_add # {} \/ edges_to_add # {}
       THEN /\ cov_vertices' = MirrorVertices(cov_vertices, vertices_to_add)
            /\ cov_edges' = MirrorEdges(cov_edges, edges_to_add)
            /\ IF initialized
               THEN IF ~solver_ok
                    THEN OptimizeThrows(UpdateActiveVertices, UpdateActiveEdges,
                                        SolverCall(online))
                    ELSE OptimizeCommits(UpdateActiveVertices, UpdateActiveEdges, est,
                                         SolverCall(online), order)
               ELSE IF ~InitializeOptimizationOk(solver_ok)
                    THEN OptimizeThrows(activeVertices, activeEdges, SolverCall(online))
                    ELSE OptimizeCommits(InitActiveVertices, InitActiveEdges, est,
                                         SolverCall(online), order)
       ELSE /\ vertices' = SolverRun(activeVertices, est)
            /\ map_update_necessary' = TRUE
            /\ ReturnedSolver("optimize", "err", [call |-> "none", run |-> RunMode(online)])
            /\ UNCHANGED <<next_vertex_id, initialized, last_vertex,
                           odometry_pose_last_vertex, odometry_covariance_last_vertex,
                           new_edges_added, edges, activeVertices, activeEdges,
                           staging, shadow, env_frames, settings>>

-----------------------------------------------------------------------------
(* VertexSE3_GICP: candidate bookkeeping *)

NewCandidate(d) == [distance |-> d, stale |-> FALSE]

\* the greatest max_sensor_distance updateGICPConfiguration is called with
FarthestDistance == MaxSensorDistance + 1

\* a candidate's error: greater for a nearer target, halved once it is stale
CandidateError(c) ==
    IF c.stale THEN FarthestDistance + 1 - c.distance
    ELSE 2 * (FarthestDistance + 1 - c.distance)

addEdgeCandidate(v, tid, d) ==
    [v EXCEPT !.candidates =
        [t \in DOMAIN v.candidates \cup {tid} |->
            IF t = tid THEN NewCandidate(d) ELSE v.candidates[t]]]

removeEdgeCandidate(v, tid) ==
    [v EXCEPT !.candidates = [t \in DOMAIN v.candidates \ {tid} |-> v.candidates[t]]]

updateEdgeCandidate(v, tid, stale) ==
    IF tid \in DOMAIN v.candidates
    THEN [v EXCEPT !.candidates[tid].stale = stale]
    ELSE v

RECURSIVE SumErrors(_, _)
SumErrors(cands, ts) ==
    IF ts = {} THEN 0
    ELSE LET t == CHOOSE x \in ts : TRUE
         IN CandidateError(cands[t]) + SumErrors(cands, ts \ {t})

\* the sum of the candidates' errors
getMissingEdgesError(v) == SumErrors(v.candidates, DOMAIN v.candidates)

\* the candidate with the greatest error, the smaller target id on a tie; NULL if none
getBestEdgeCandidate(v) ==
    IF DOMAIN v.candidates = {} THEN NULL
    ELSE CHOOSE t \in DOMAIN v.candidates :
            \A u \in DOMAIN v.candidates :
                \/ CandidateError(v.candidates[t]) > CandidateError(v.candidates[u])
                \/ /\ CandidateError(v.candidates[t]) = CandidateError(v.candidates[u])
                   /\ t <= u

-----------------------------------------------------------------------------
(* findEdgeCandidates *)

\* the vertices findEdgeCandidates() asks the marginals for
Searchable == { v \in activeVertices : vertices[v].cloud }

\* the pairs findEdgeCandidates(int, spinv) may compute a distance for
FarPairs == { p \in Searchable \X Searchable : p[1] + 1 < p[2] }

MahalanobisValues == {0, MaxSensorDistance + 1}

\* the guard of the inner loop on the two ids
NotAdjacent(vertex_id, target_id) ==
    vertex_id < target_id - 1 \/ vertex_id > target_id + 1

equal_edges(s, t) == Cardinality(EdgesBetween(edges, s, t))

getVertexCovariance(id, covered) == isHandledByOptimizer(id) /\ id \in covered

\* the sources findEdgeCandidates() hands to findEdgeCandidates(int, spinv) whose
\* search then runs
SearchSources(covered) ==
    { s \in activeVertices :
        /\ vertices[s].cloud
        /\ ~vertices[s].has_run
        /\ getVertexCovariance(s, covered) }

SearchTargets(s) ==
    { t \in activeVertices : vertices[t].cloud /\ NotAdjacent(s, t) }

Unordered(a, b) == IF a < b THEN <<a, b>> ELSE <<b, a>>

CandidateDistance_Greater(s, t, mahal) ==
    LET mahalanobis_distance == mahal[Unordered(s, t)]
        euclidean_distance == Norm(vertices[t].estimate, vertices[s].estimate)
    IN  IF mahalanobis_distance > euclidean_distance
        THEN mahalanobis_distance ELSE euclidean_distance
CandidateDistance(s, t, mahal) ==
    LET mahalanobis_distance == mahal[Unordered(s, t)]
        euclidean_distance == Norm(vertices[t].estimate, vertices[s].estimate)
    IN  IF mahalanobis_distance > euclidean_distance
        THEN euclidean_distance ELSE mahalanobis_distance

\* whether the search from s adds the candidate pair (s, t)
Discovers(s, t, covered, mahal) ==
    /\ t \in SearchTargets(s)
    /\ equal_edges(s, t) = 0
    /\ getVertexCovariance(t, covered)
    /\ CandidateDistance(s, t, mahal) <= gicp_config

\* the vertices that get a candidate for v: v searched and found them, or they
\* searched and found v
DiscoveredFor(v, covered, mahal) ==
    { u \in activeVertices :
        \/ v \in SearchSources(covered) /\ Discovers(v, u, covered, mahal)
        \/ u \in SearchSources(covered) /\ Discovers(u, v, covered, mahal) }

RECURSIVE AddCandidates(_, _, _, _)
AddCandidates(vid, v, us, mahal) ==
    IF us = {} THEN v
    ELSE LET u == CHOOSE x \in us : TRUE
         IN AddCandidates(vid, addEdgeCandidate(v, u, CandidateDistance(vid, u, mahal)),
                          us \ {u}, mahal)

\* the duplicate-edge assertion of the inner loop fails
DuplicateEdgeSeen(covered) ==
    \E s \in SearchSources(covered) : \E t \in SearchTargets(s) : equal_edges(s, t) > 1

\* covered: the vertices the marginals hold a block for; mahal: the Mahalanobis
\* distance of each pair
FindEdgeCandidates(covered, mahal) ==
    /\ Alive
    /\ IF DuplicateEdgeSeen(covered)
       THEN /\ Returned("findEdgeCandidates", "abort")
            /\ UNCHANGED <<vertices, new_edges_added>>
       ELSE /\ vertices' =
                 [v \in VertexIds |->
                     LET found == AddCandidates(v, vertices[v],
                                                DiscoveredFor(v, covered, mahal), mahal)
                     IN IF v \in SearchSources(covered)
                        THEN [found EXCEPT !.has_run = TRUE]
                        ELSE found]
            /\ new_edges_added' =
                 (new_edges_added \/ \E v \in VertexIds : DiscoveredFor(v, covered, mahal) # {})
            /\ Returned("findEdgeCandidates", "ok")
    /\ UNCHANGED <<next_vertex_id, initialized, last_vertex, odometry_pose_last_vertex,
                   odometry_covariance_last_vertex, map_update_necessary, edges,
                   activeVertices, activeEdges, staging, shadow, env_frames, settings>>

-----------------------------------------------------------------------------
(* tryBestEdgeCandidates *)

\* what one GICP test ends with: the measurement fails, is valid and the graph
\* takes or refuses the edge, or is invalid
GicpResponses == {"error", "valid_added", "valid_refused", "invalid"}

\* the active vertex with a cloud and the greatest missing edges error, the
\* first of them in the order of the ids; NULL when every error is zero
BestSource(vs, act) ==
    LET withError == { v \in act : vs[v].cloud /\ getMissingEdgesError(vs[v]) > 0 }
    IN  IF withError = {} THEN NULL
        ELSE CHOOSE s \in withError :
                \A u \in withError :
                    \/ getMissingEdgesError(vs[s]) > getMissingEdgesError(vs[u])
                    \/ /\ getMissingEdgesError(vs[s]) = getMissingEdgesError(vs[u])
                       /\ s <= u

AfterValidEdge_SourceOnly(vs, s, t) == [vs EXCEPT ![s] = removeEdgeCandidate(vs[s], t)]
AfterValidEdge_TargetOnly(vs, s, t) == [vs EXCEPT ![t] = removeEdgeCandidate(vs[t], s)]
AfterValidEdge_KeepsCandidate(vs, s, t) == vs
\* a valid measurement: the candidate leaves both vertices
AfterValidEdge(vs, s, t) ==
    [vs EXCEPT ![s] = removeEdgeCandidate(vs[s], t),
               ![t] = removeEdgeCandidate(vs[t], s)]

AfterInvalidEdge_SourceOnly(vs, s, t) ==
    [vs EXCEPT ![s] = updateEdgeCandidate(vs[s], t, TRUE)]
\* an invalid measurement: the candidate is marked on both vertices
AfterInvalidEdge(vs, s, t) ==
    [vs EXCEPT ![s] = updateEdgeCandidate(vs[s], t, TRUE),
               ![t] = updateEdgeCandidate(vs[t], s, TRUE)]

AfterDiscard_KeepsCandidate(vs, s, t) == vs
\* the target is gone or has no cloud: the candidate leaves the source
AfterDiscard(vs, s, t) == [vs EXCEPT ![s] = removeEdgeCandidate(vs[s], t)]

\* st = [vertices, edges, edges_to_add, new_edges_added, tested, result];
\* result "hang": the loop goes round without counting a test or changing anything
RECURSIVE TryLoop(_, _, _)
TryLoop(st, count, resp) ==
    IF st.tested >= count THEN st
    ELSE
    LET s == BestSource(st.vertices, activeVertices) IN
    IF s = NULL THEN [st EXCEPT !.new_edges_added = FALSE]
    ELSE
    LET t == getBestEdgeCandidate(st.vertices[s]) IN
    IF t = NULL THEN [st EXCEPT !.result = "hang"]
    ELSE IF t \notin DOMAIN st.vertices \/ ~st.vertices[t].cloud
    THEN IF AfterDiscard(st.vertices, s, t) = st.vertices
         THEN [st EXCEPT !.result = "hang"]
         ELSE TryLoop([st EXCEPT !.vertices = AfterDiscard(st.vertices, s, t)], count, resp)
    ELSE
    LET r == resp[st.tested + 1]
        edge == NewEdge(st.edges, s, t, "loop")
        removed == AfterValidEdge(st.vertices, s, t)
        marked == AfterInvalidEdge(st.vertices, s, t)
    IN  IF r = "error" THEN [st EXCEPT !.result = "GicpError"]
        ELSE IF r = "valid_added"
        THEN TryLoop([st EXCEPT !.edges = st.edges \cup {edge},
                                !.edges_to_add = st.edges_to_add \cup {Staged(edge)},
                                !.vertices = removed,
                                !.tested = st.tested + 1], count, resp)
        ELSE IF r = "valid_refused"
        THEN TryLoop([st EXCEPT !.edges_to_add = st.edges_to_add \cup {Freed(edge)},
                                !.vertices = removed,
                                !.tested = st.tested + 1], count, resp)
        ELSE TryLoop([st EXCEPT !.vertices = marked,
                                !.tested = st.tested + 1], count, resp)

TryBestEdgeCandidates(count, resp) ==
    /\ Alive
    /\ IF ~new_edges_added
       THEN /\ Returned("tryBestEdgeCandidates", "ok")
            /\ UNCHANGED <<vertices, edges, edges_to_add, new_edges_added>>
       ELSE LET end == TryLoop([vertices |-> vertices, edges |-> edges,
                                edges_to_add |-> edges_to_add,
                                new_edges_added |-> new_edges_added,
                                tested |-> 0, result |-> "ok"], count, resp)
            IN  /\ vertices' = end.vertices
                /\ edges' = end.edges
                /\ edges_to_add' = end.edges_to_add
                /\ new_edges_added' = end.new_edges_added
                /\ ReturnedTested("tryBestEdgeCandidates", end.result, end.tested)
    /\ UNCHANGED <<next_vertex_id, initialized, last_vertex, odometry_pose_last_vertex,
                   odometry_covariance_last_vertex, map_update_necessary,
                   activeVertices, activeEdges, vertices_to_add, shadow, env_frames,
                   settings>>

-----------------------------------------------------------------------------
(* setMLSMapConfiguration, updateGICPConfiguration, adjustOdometryPose *)

\* what env->getOutput does for a projection the environment does not hold:
\* it throws, or the null it hands back is dereferenced
EnvireOutcomes == {"throws", "crash"}

SetMLSMapConfiguration(use, o) ==
    /\ Alive
    /\ IF use /\ ~projection
       THEN /\ projection' = TRUE
            /\ mls_attached' = TRUE
            /\ use_mls' = TRUE
            /\ Returned("setMLSMapConfiguration", "ok")
       ELSE IF use /\ projection
       THEN /\ use_mls' = TRUE
            /\ UNCHANGED <<projection, mls_attached>>
            /\ Returned("setMLSMapConfiguration", "ok")
       ELSE IF ~use /\ projection
       THEN IF mls_attached
            THEN /\ use_mls' = FALSE
                 /\ UNCHANGED <<projection, mls_attached>>
                 /\ Returned("setMLSMapConfiguration", "ok")
            ELSE /\ UNCHANGED <<use_mls, projection, mls_attached>>
                 /\ Returned("setMLSMapConfiguration",
                             IF o = "crash" THEN "abort" ELSE "EnvireError")
       ELSE /\ UNCHANGED <<use_mls, projection, mls_attached>>
            /\ Returned("setMLSMapConfiguration", "ok")
    /\ UNCHANGED <<driver, graph, staging, shadow, env_frames, mls_inputs, grid,
                   gicp_config>>

UpdateGICPConfiguration(max_sensor_distance) ==
    /\ Alive
    /\ gicp_config' = max_sensor_distance
    /\ Returned("updateGICPConfiguration", "ok")
    /\ UNCHANGED <<driver, graph, staging, shadow, env_frames, mls, grid>>

NoLastVertex_NotInitialized == ~initialized
NoLastVertex == last_vertex = NULL

\* the estimate of last_vertex moved on by the odometry since last_vertex
AdjustedPose(odometry_pose) ==
    Compose(vertices[last_vertex].estimate,
            Compose(Inverse(odometry_pose_last_vertex), odometry_pose))

AdjustOdometryPose(odometry_pose) ==
    /\ Alive
    /\ IF NoLastVertex
       THEN Returned("adjustOdometryPose", "false")
       ELSE ReturnedPose("adjustOdometryPose", "true", AdjustedPose(odometry_pose))
    /\ UNCHANGED <<driver, graph, staging, shadow, env_frames, settings>>

-----------------------------------------------------------------------------
(* Specifications *)

\* a robot that stands still: every valid odometry pose is the identity and
\* the solver leaves the estimates where they are
StillTransformations ==
    { [pose |-> Identity, cov |-> CovIdentity] } \cup NanTransformations

\* every operation, with every failure of the graph, of GICP, of the solver
\* and of the memory, for a robot that stands still
Next ==
    \/ \E t \in StillTransformations, o \in AddOutcomes : AddVertex(t, o)
    \/ \E id \in Ids : RemovePointcloudFromVertex(id)
    \/ \E online \in BOOLEAN, o \in OptimizeOutcomes, est \in [Movable -> {Identity}],
          order \in GridOrders :
          Optimize(online, o, est, order)
    \/ \E covered \in SUBSET Searchable, mahal \in [FarPairs -> {0}] :
          FindEdgeCandidates(covered, mahal)
    \/ \E count \in 0 .. MaxCount : \E resp \in [1 .. count -> GicpResponses] :
          TryBestEdgeCandidates(count, resp)
    \/ Clear

Spec == Init /\ [][Next]_vars

\* the driver alone (no loop closure), for a robot that moves and a solver
\* that moves the estimates
NextPose ==
    \/ \E t \in Transformations, o \in AddOutcomes : AddVertex(t, o)
    \/ \E id \in Ids : RemovePointcloudFromVertex(id)
    \/ \E online \in BOOLEAN, o \in OptimizeOutcomes, est \in [Movable -> Poses],
          order \in GridOrders :
          Optimize(online, o, est, order)
    \/ \E odometry_pose \in Poses : AdjustOdometryPose(odometry_pose)
    \/ Clear

SpecPose == Init /\ [][NextPose]_vars

\* the driver with the vertex grid (no loop closure), for an odometry that
\* stands still and a solver that moves the estimates
NextGrid ==
    \/ \E t \in StillTransformations, o \in {"fine", "gicp_fails"} : AddVertex(t, o)
    \/ \E id \in Ids : RemovePointcloudFromVertex(id)
    \/ \E id \in Ids : RemoveVertex(id)
    \/ \E online \in BOOLEAN, o \in {"fine", "solver_fails"}, est \in [Movable -> Poses],
          order \in GridOrders :
          Optimize(online, o, est, order)
    \/ \E max \in 1 .. MaxVerticesPerCell : SetupMaxVertexGrid(max)
    \/ RemoveVerticesFromGrid
    \/ Clear

SpecGrid == Init /\ [][NextGrid]_vars

\* the configuration calls around clear, for a robot that stands still
NextConfig ==
    \/ \E t \in StillTransformations : AddVertex(t, "fine")
    \/ \E online \in BOOLEAN, est \in [Movable -> {Identity}], order \in GridOrders :
          Optimize(online, "fine", est, order)
    \/ \E use \in BOOLEAN, o \in EnvireOutcomes : SetMLSMapConfiguration(use, o)
    \/ \E d \in 0 .. FarthestDistance : UpdateGICPConfiguration(d)
    \/ \E max \in 1 .. MaxVerticesPerCell : SetupMaxVertexGrid(max)
    \/ Clear

SpecConfig == Init /\ [][NextConfig]_vars

\* the loop-closure engine for a solver that moves the estimates and a sensor
\* range that changes: discovery with every outcome of the marginals and of
\* the Mahalanobis distance, realization with GICP valid or invalid
NextSearch ==
    \/ \E t \in StillTransformations : AddVertex(t, "fine")
    \/ \E id \in Ids : RemovePointcloudFromVertex(id)
    \/ \E online \in BOOLEAN, est \in [Movable -> Poses], order \in GridOrders :
          Optimize(online, "fine", est, order)
    \/ \E d \in 0 .. FarthestDistance : UpdateGICPConfiguration(d)
    \/ \E covered \in SUBSET Searchable, mahal \in [FarPairs -> MahalanobisValues] :
          FindEdgeCandidates(covered, mahal)
    \/ \E count \in 0 .. MaxCount :
          \E resp \in [1 .. count -> {"valid_added", "invalid"}] :
             TryBestEdgeCandidates(count, resp)
    \/ Clear

SpecSearch == Init /\ [][NextSearch]_vars

-----------------------------------------------------------------------------
(* Claims *)

IdDistance(a, b) == IF a < b THEN b - a ELSE a - b

AddFailuresAfterCreation == {"vertex_rejected", "GicpError", "edge_rejected"}

OptimizeReturned == last_call.op = "optimize" /\ last_call.result \in {"0", "err"}

\* C1: an addVertex that fails after the vertex object was created (the graph
\* refuses the vertex, GICP fails on the sequential edge, the graph refuses
\* the edge) leaves no vertex with the attempted id in the primary graph and
\* leaves the staging sets, next_vertex_id, last_vertex and the stored
\* odometry pose and covariance as they were.
C1_FailedAddUndoesAll ==
    [][ (last_call'.op = "addVertex" /\ last_call'.result \in AddFailuresAfterCreation)
        => /\ next_vertex_id \notin DOMAIN vertices'
           /\ UNCHANGED <<vertices_to_add, edges_to_add, next_vertex_id, last_vertex,
                          odometry_pose_last_vertex, odometry_covariance_last_vertex>> ]_vars

\* C2: the ids of the vertices of the primary graph are exactly
\* 0 .. next_vertex_id - 1; a failed addVertex leaves no vertex behind.
C2_IdsContiguous == DOMAIN vertices = 0 .. (next_vertex_id - 1)

\* C3: between two distinct vertices of the primary graph there is at most one
\* edge, in either direction, and the duplicate-edge assertion of
\* findEdgeCandidates never fails.
C3_AtMostOneEdge ==
    /\ \A a, b \in VertexIds : a # b => Cardinality(EdgesBetween(edges, a, b)) <= 1
    /\ ~(last_call.op = "findEdgeCandidates" /\ last_call.result = "abort")

\* a search has run over a graph that holds a loop-closure edge beside the
\* sequential ones
C3_Witness ==
    /\ last_call.op = "findEdgeCandidates"
    /\ \E e \in edges : e.kind = "loop"
    /\ \E e \in edges : e.kind = "sequential"

\* C4: after an optimize that returns, the shadow graph holds exactly the ids
\* of the primary vertices with a cloud attached, and every shadow edge joins
\* the pair of ids of an edge of the primary graph.
C4_ShadowMirrorsClouds ==
    OptimizeReturned =>
        /\ DOMAIN cov_vertices = { v \in VertexIds : vertices[v].cloud }
        /\ \A ce \in cov_edges : \E e \in edges : <<e.src, e.tgt>> = ce

\* C5: an edge the graph refused in tryBestEdgeCandidates is not recorded in
\* edges_to_add: every staged edge is an edge of the primary graph.
C5_StagedEdgesAreGraphEdges ==
    \A se \in edges_to_add : ~se.freed /\ EdgeOf(se) \in edges

\* C6 as stated: after every optimize that returns, whatever was staged is
\* committed: the staging sets are empty.
C6_EveryOptimizeCommits ==
    OptimizeReturned => (vertices_to_add = {} /\ edges_to_add = {})

\* C6 as amended: an optimize that finds something staged, does not return
\* early for want of work (no active vertices and fewer than two staged
\* vertices) and raises no error empties both staging sets, and every vertex
\* that was staged is then active in the solver and held by the shadow graph.
C6_CommittingOptimizeCommits ==
    [][ (/\ last_call'.op = "optimize"
         /\ last_call'.result = "err"
         /\ (vertices_to_add # {} \/ edges_to_add # {}))
        => /\ vertices_to_add' = {}
           /\ edges_to_add' = {}
           /\ vertices_to_add \subseteq activeVertices'
           /\ vertices_to_add \subseteq DOMAIN cov_vertices' ]_vars

\* an optimize has committed staged vertices and a staged loop-closure edge
C6_Witness ==
    /\ last_call.op = "optimize"
    /\ last_call.result = "err"
    /\ vertices_to_add = {}
    /\ edges_to_add = {}
    /\ 1 \in activeVertices
    /\ 1 \in DOMAIN cov_vertices
    /\ \E e \in activeEdges : e.kind = "loop"

\* C7 as stated: every addVertex with a NaN in the pose or in the covariance
\* fails with BadInput and changes nothing.
C7_NanAlwaysBadInput ==
    [][ \A t \in NanTransformations, o \in AddOutcomes :
          AddVertex(t, o)
          => /\ last_call'.result = "BadInput"
             /\ UNCHANGED <<driver, graph, staging, shadow, env_frames>> ]_vars

\* C7 as amended: addVertex with a NaN in the pose or in the covariance, called
\* while an id is left to give (at the largest id the overflow check comes
\* first), fails with BadInput and changes nothing: not the primary graph, the
\* staging sets, the driver's fields, the shadow graph or the environment.
C7_NanInputChangesNothing ==
    [][ \A t \in NanTransformations, o \in AddOutcomes :
          (next_vertex_id < IntMax /\ AddVertex(t, o))
          => /\ last_call'.result = "BadInput"
             /\ UNCHANGED <<driver, graph, staging, shadow, env_frames>> ]_vars

\* a NaN input was refused while the graph held vertices and staged items
C7_Witness ==
    /\ last_call.op = "addVertex"
    /\ last_call.result = "BadInput"
    /\ last_vertex # NULL
    /\ vertices_to_add # {}

\* C8: a successful addVertex stages exactly the new vertex and makes it
\* last_vertex; the vertex is fixed if and only if it is the first of its
\* trajectory (id 0, last_vertex null at the call); the first vertex gets the
\* odometry pose as estimate and no edge; every later vertex comes with
\* exactly one new edge, sequential, from the previous last_vertex (id - 1) to
\* it, in the graph and in edges_to_add.
C8_SuccessfulAdd ==
    [][ \A t \in Transformations, o \in AddOutcomes :
          (AddVertex(t, o) /\ last_call'.result = "true")
          => LET id == next_vertex_id IN
             /\ id \notin vertices_to_add
             /\ vertices_to_add' = vertices_to_add \cup {id}
             /\ last_vertex' = id
             /\ next_vertex_id' = id + 1
             /\ (last_vertex = NULL) <=> (id = 0)
             /\ vertices'[id].fixed <=> (id = 0)
             /\ \A v \in DOMAIN vertices' : vertices'[v].fixed <=> (v = 0)
             /\ id = 0 => /\ vertices'[id].estimate = t.pose
                          /\ UNCHANGED <<edges, edges_to_add>>
             /\ id # 0 => \E e \in edges' \ edges :
                             /\ e.src = last_vertex
                             /\ e.src = id - 1
                             /\ e.tgt = id
                             /\ e.kind = "sequential"
                             /\ edges' = edges \cup {e}
                             /\ edges_to_add' = edges_to_add \cup {Staged(e)}
                             /\ Staged(e) \notin edges_to_add ]_vars

\* a vertex after the first was added, after the solver moved its predecessor
C8_Witness ==
    /\ last_call.op = "addVertex"
    /\ last_call.result = "true"
    /\ next_vertex_id >= 2
    /\ last_vertex = next_vertex_id - 1
    /\ (last_vertex - 1) \in activeVertices

\* C9: every edge candidate joins ids at least 2 apart, and so does every
\* loop-closure edge of the primary graph and every one edges_to_add points
\* to (a pointer to a deleted edge names no edge); every sequential edge goes
\* from an id to the next one.
C9_IdDistances ==
    /\ \A s \in VertexIds : \A t \in DOMAIN vertices[s].candidates : IdDistance(s, t) >= 2
    /\ \A e \in edges \cup { EdgeOf(se) : se \in { x \in edges_to_add : ~x.freed } } :
          IF e.kind = "sequential" THEN e.tgt = e.src + 1
          ELSE IdDistance(e.src, e.tgt) >= 2

\* a loop-closure edge is staged beside the sequential edges of the graph
C9_Witness ==
    /\ \E se \in edges_to_add : se.kind = "loop" /\ EdgeOf(se) \in edges
    /\ \E e \in edges : e.kind = "sequential"

\* C10: an optimize that fails in initializeOptimization or
\* updateInitialization leaves both staging sets as they were and does not
\* set initialized; the staged items are still there for the next optimize,
\* which does not return early for want of work.
C10_FailedOptimizeKeepsStaging ==
    [][ (last_call'.op = "optimize" /\ last_call'.result = "OptimizerError")
        => /\ UNCHANGED <<vertices_to_add, edges_to_add>>
           /\ initialized' = initialized
           /\ (vertices_to_add' # {} \/ edges_to_add' # {})
           /\ ~NothingToOptimize' ]_vars

\* updateInitialization failed with a vertex and an edge staged
C10_Witness ==
    /\ last_call.op = "optimize"
    /\ last_call.result = "OptimizerError"
    /\ initialized
    /\ vertices_to_add # {}
    /\ edges_to_add # {}

\* C11: optimize called with no active vertices and fewer than 2 staged
\* vertices returns 0 and changes nothing: not the staging sets, the shadow
\* graph, initialized, the vertex grid or map_update_necessary, and the solver
\* does not run (the estimates and the solver's containers stay).
C11_EarlyReturnChangesNothing ==
    [][ (/\ last_call'.op = "optimize"
         /\ activeVertices = {}
         /\ Cardinality(vertices_to_add) < 2)
        => /\ last_call'.result = "0"
           /\ last_call'.run = "none"
           /\ UNCHANGED <<driver, graph, staging, shadow, env_frames, settings>> ]_vars

\* optimize returned 0 with the first vertex staged and the vertex grid in use
C11_Witness ==
    /\ last_call.op = "optimize"
    /\ last_call.result = "0"
    /\ vertices_to_add = {0}
    /\ activeVertices = {}
    /\ use_vertex_grid
    /\ map_update_necessary

\* the pair tryBestEdgeCandidates tests first when nothing is to be discarded:
\* the source with the greatest missing edges error and its best candidate
FirstSource == BestSource(vertices, activeVertices)
FirstTarget ==
    IF FirstSource = NULL THEN NULL ELSE getBestEdgeCandidate(vertices[FirstSource])

TestsFirstPair ==
    /\ new_edges_added
    /\ FirstSource # NULL
    /\ FirstTarget \in VertexIds
    /\ vertices[FirstTarget].cloud

\* C12: when GICP reports an invalid measurement for the candidate (s, t)
\* tryBestEdgeCandidates tests, the candidate stays on s and on t and is marked
\* stale on both, nothing else changes on any vertex, no edge is added to the
\* primary graph or to edges_to_add, and one test is counted.
C12_InvalidMarksStale ==
    [][ \A resp \in [1 .. 1 -> {"invalid"}] :
          (TestsFirstPair /\ TryBestEdgeCandidates(1, resp))
          => LET s == FirstSource
                 t == FirstTarget
             IN  /\ s \in DOMAIN vertices[t].candidates
                 /\ vertices' = [vertices EXCEPT ![s].candidates[t].stale = TRUE,
                                                 ![t].candidates[s].stale = TRUE]
                 /\ vertices'[s].candidates[t].stale
                 /\ vertices'[t].candidates[s].stale
                 /\ UNCHANGED <<edges, edges_to_add>>
                 /\ last_call'.tested = 1
                 /\ last_call'.result = "ok" ]_vars

\* one test was counted, no loop-closure edge exists or is staged, and a
\* candidate is stale on both of its vertices
C12_Witness ==
    /\ last_call.op = "tryBestEdgeCandidates"
    /\ last_call.tested = 1
    /\ \A e \in edges : e.kind = "sequential"
    /\ \A se \in edges_to_add : se.kind = "sequential"
    /\ \E s, t \in VertexIds :
          /\ t \in DOMAIN vertices[s].candidates
          /\ s \in DOMAIN vertices[t].candidates
          /\ vertices[s].candidates[t].stale
          /\ vertices[t].candidates[s].stale

\* the staged edges a call has added that join a and b
NewlyStagedBetween(a, b) ==
    { se \in edges_to_add' \ edges_to_add :
        (se.src = a /\ se.tgt = b) \/ (se.src = b /\ se.tgt = a) }

\* C13: tryBestEdgeCandidates(count) returns for every count >= 0 (the loop
\* never goes round without counting a test, discarding a candidate or
\* returning); it counts at most count tests and stages at most one edge per
\* test; a candidate leaves a vertex only through a valid test, which stages an
\* edge for the pair, or because its target has no cloud, which counts no
\* test; and when it returns with fewer than count tests and no error, the
\* missing edges error of every active vertex with a cloud is zero and
\* new_edges_added is false.
C13_TryBestTerminates ==
    [][ last_call'.op = "tryBestEdgeCandidates" =>
        \A count \in 0 .. MaxCount : \A resp \in [1 .. count -> GicpResponses] :
          TryBestEdgeCandidates(count, resp)
          => /\ last_call'.result \in {"ok", "GicpError"}
             /\ last_call'.tested <= count
             /\ Cardinality(edges_to_add' \ edges_to_add) <= last_call'.tested
             /\ DOMAIN vertices' = DOMAIN vertices
             /\ \A s \in VertexIds :
                   /\ DOMAIN vertices'[s].candidates \subseteq DOMAIN vertices[s].candidates
                   /\ \A t \in DOMAIN vertices[s].candidates \ DOMAIN vertices'[s].candidates :
                         \/ t \notin VertexIds
                         \/ ~vertices[t].cloud
                         \/ NewlyStagedBetween(s, t) # {}
             /\ (last_call'.tested = 0 /\ last_call'.result = "ok")
                   => UNCHANGED <<edges, edges_to_add>>
             /\ (new_edges_added /\ last_call'.result = "ok" /\ last_call'.tested < count)
                   => /\ ~new_edges_added'
                      /\ \A v \in activeVertices :
                            vertices'[v].cloud => getMissingEdgesError(vertices'[v]) = 0
             /\ new_edges_added' =>
                   (new_edges_added /\ (last_call'.tested = count
                                            \/ last_call'.result = "GicpError")) ]_vars

\* a call has discarded a candidate whose target had lost its cloud, counted no
\* test and found no error left: the candidate is still on the target only
C13_Witness ==
    /\ last_call.op = "tryBestEdgeCandidates"
    /\ last_call.result = "ok"
    /\ last_call.tested = 0
    /\ ~new_edges_added
    /\ \E s, t \in VertexIds :
          /\ vertices[s].cloud
          /\ ~vertices[t].cloud
          /\ s \in DOMAIN vertices[t].candidates
          /\ t \notin DOMAIN vertices[s].candidates

DetachOperations == {"removePointcloudFromVertex", "removeVertex", "removeVerticesFromGrid"}

\* C14: removePointcloudFromVertex, removeVertex and removeVerticesFromGrid
\* leave the vertex set, the edge set, the estimates and the fixed flags of the
\* primary graph as they were; on a vertex only the cloud attachment changes
\* (from attached to detached), a frame node leaves the environment only with
\* the cloud of its vertex, the calls that name a vertex change no other
\* vertex, and removeVertex returns false.
C14_DetachKeepsTopology ==
    [][ last_call'.op \in DetachOperations =>
        /\ DOMAIN vertices' = DOMAIN vertices
        /\ edges' = edges
        /\ \A v \in VertexIds :
              /\ vertices'[v].estimate = vertices[v].estimate
              /\ vertices'[v].fixed = vertices[v].fixed
              /\ vertices'[v] = [vertices[v] EXCEPT !.cloud = vertices'[v].cloud]
              /\ vertices'[v].cloud => vertices[v].cloud
        /\ env_frames' \subseteq env_frames
        /\ \A v \in env_frames \ env_frames' : vertices[v].cloud /\ ~vertices'[v].cloud
        /\ UNCHANGED <<activeVertices, activeEdges>>
        /\ last_call'.op = "removeVertex" => last_call'.result = "false"
        /\ \A id \in Ids :
              (RemovePointcloudFromVertex(id) \/ RemoveVertex(id))
              => \A v \in VertexIds \ {id} : vertices'[v] = vertices[v] ]_vars

\* the grid has evicted a vertex that is still in the graph with its edges: it
\* is active, in no cell, and without cloud and frame node, and the cell at its
\* position is full of younger vertices, all with their clouds
C14_Witness ==
    /\ last_call.op = "removeVerticesFromGrid"
    /\ \E v \in activeVertices :
          /\ ~vertices[v].cloud
          /\ v \notin env_frames
          /\ \E e \in edges : e.src = v \/ e.tgt = v
          /\ \A g \in vertex_grid : \A p \in Poses :
                \A k \in 1 .. Len(g.cells[p]) : g.cells[p][k] # v
          /\ \E g \in vertex_grid :
                /\ g.evict = {}
                /\ Len(g.cells[vertices[v].estimate]) = g.max
                /\ \A k \in 1 .. g.max :
                      /\ g.cells[vertices[v].estimate][k] > v
                      /\ vertices[g.cells[vertices[v].estimate][k]].cloud

\* C15: in every reachable state a vertex of the primary graph with a cloud
\* attached owns its frame node in the environment (one per vertex id, child
\* of the root node) and a vertex without a cloud owns none.
C15_CloudIffFrameNode ==
    /\ env_frames \subseteq VertexIds
    /\ \A v \in VertexIds : vertices[v].cloud <=> v \in env_frames

\* C16: after clear the instance is in the state of a freshly constructed one:
\* next_vertex_id 0, initialized false, last_vertex null, the stored odometry
\* the identity, both staging sets empty, the primary and the shadow graph
\* empty, a fresh environment, no vertex grid, grid and MLS use off with no
\* projection left, new_edges_added and map_update_necessary false and the
\* GICP configuration of a new instance, so that the calls that follow act as
\* on a new instance.
C16_ClearRestoresFreshState ==
    last_call.op = "clear" =>
        /\ next_vertex_id = 0
        /\ initialized = FALSE
        /\ last_vertex = NULL
        /\ odometry_pose_last_vertex = Identity
        /\ odometry_covariance_last_vertex = CovIdentity
        /\ new_edges_added = FALSE
        /\ map_update_necessary = FALSE
        /\ DOMAIN vertices = {}
        /\ edges = {}
        /\ activeVertices = {}
        /\ activeEdges = {}
        /\ vertices_to_add = {}
        /\ edges_to_add = {}
        /\ DOMAIN cov_vertices = {}
        /\ cov_edges = {}
        /\ env_frames = {}
        /\ use_mls = FALSE
        /\ mls_attached = FALSE
        /\ mls_inputs = {}
        /\ use_vertex_grid = FALSE
        /\ vertex_grid = {}
        /\ projection = FALSE
        /\ gicp_config = MaxSensorDistance

\* C17: adjustOdometryPose returns false (no pose) exactly when last_vertex is
\* null, which is exactly when no addVertex has succeeded since the
\* construction or the last clear (next_vertex_id is 0); otherwise it returns
\* true with a pose; in both cases it changes nothing: not the graph, the
\* staging sets, the stored odometry pose or any other field.
C17_AdjustOdometryPose ==
    [][ last_call'.op = "adjustOdometryPose" =>
        /\ (last_call'.result = "false") <=> (last_vertex = NULL)
        /\ (last_vertex = NULL) <=> (next_vertex_id = 0)
        /\ last_call'.result \in {"false", "true"}
        /\ (last_call'.result = "true") <=> (last_call'.adjusted \in Poses)
        /\ UNCHANGED <<driver, graph, staging, shadow, env_frames, settings>> ]_vars

\* a pose was returned before the first optimize, for a last vertex that is
\* not the first of the trajectory
C17_Witness ==
    /\ last_call.op = "adjustOdometryPose"
    /\ last_call.result = "true"
    /\ last_call.adjusted \in Poses
    /\ ~initialized
    /\ last_vertex > 0

\* C18: next_vertex_id never exceeds the largest int; addVertex called with
\* next_vertex_id at the largest int fails with Overflow, whatever its input,
\* before a vertex is created: the graph, the staging sets, last_vertex,
\* next_vertex_id and everything else stay as they were; and Overflow is
\* raised in no other state.
C18_OverflowRejected ==
    [][ /\ next_vertex_id <= IntMax
        /\ next_vertex_id' <= IntMax
        /\ (last_call'.op = "addVertex" /\ next_vertex_id = IntMax)
              => /\ last_call'.result = "Overflow"
                 /\ UNCHANGED <<driver, graph, staging, shadow, env_frames, settings>>
        /\ (last_call'.result = "Overflow")
              => (last_call'.op = "addVertex" /\ next_vertex_id = IntMax) ]_vars

\* addVertex was refused at the largest id, with every id below it in the graph
\* and a vertex still staged
C18_Witness ==
    /\ last_call.op = "addVertex"
    /\ last_call.result = "Overflow"
    /\ next_vertex_id = IntMax
    /\ DOMAIN vertices = 0 .. (IntMax - 1)
    /\ last_vertex = IntMax - 1
    /\ vertices_to_add # {}

\* the ids a grid holds in the cell at position p
CellIds(g, p) == { g.cells[p][k] : k \in 1 .. Len(g.cells[p]) }

\* C19: an optimize with staged items that does not return early first mirrors
\* the staged vertices and then the staged edges into the shadow graph (every
\* mirrored edge finds both of its vertices there), and only then turns to the
\* primary graph: when the primary initialization or update fails, the shadow
\* graph already holds the staged items while the estimates, the vertex grid
\* and the staging sets are untouched.  When the call returns, the staged
\* vertices were put into the vertex grid (if in use) at the estimates the
\* primary run left them with, both staging sets are empty and
\* map_update_necessary is true; it is also true when an optimize with staged
\* items returns early.
C19_OptimizeOrder ==
    [][ (/\ last_call'.op = "optimize"
         /\ (vertices_to_add # {} \/ edges_to_add # {}))
        => /\ last_call'.result \in {"0", "err"} => map_update_necessary'
           /\ ~NothingToOptimize =>
                /\ last_call'.result \in {"err", "OptimizerError"}
                /\ vertices_to_add \subseteq DOMAIN cov_vertices'
                /\ \A e \in edges_to_add :
                      /\ <<e.src, e.tgt>> \in cov_edges'
                      /\ {e.src, e.tgt} \subseteq DOMAIN cov_vertices'
                /\ last_call'.result = "OptimizerError"
                      => /\ last_call'.run = "none"
                         /\ UNCHANGED <<vertices, grid, staging, initialized,
                                        map_update_necessary>>
                /\ last_call'.result = "err"
                      => /\ last_call'.run # "none"
                         /\ vertices_to_add' = {}
                         /\ edges_to_add' = {}
                         /\ use_vertex_grid =>
                               \A g \in vertex_grid' : \A v \in vertices_to_add :
                                   \/ v \in CellIds(g, vertices'[v].estimate)
                                   \/ v \in g.evict
                         /\ ~use_vertex_grid => UNCHANGED grid ]_vars

\* an optimize has updated the primary graph and put a staged vertex into the
\* grid at the position the run moved it to, away from where it was added
C19_Witness ==
    /\ last_call.op = "optimize"
    /\ last_call.result = "err"
    /\ last_call.call = "updateInitialization"
    /\ vertices_to_add = {}
    /\ map_update_necessary
    /\ \E g \in vertex_grid : \E v \in CellIds(g, 1) :
          /\ v \in DOMAIN cov_vertices
          /\ vertices[v].estimate = 1

\* what C20 says of every optimize beside the number of initializations:
\* initializeOptimization is called only while initialized is false and its
\* run is offline whatever the caller's flag; an optimize that gets past the
\* early return with staged items calls initializeOptimization if
\* initialized is false and else updateInitialization, which takes in the
\* staged vertices and edges and nothing else, and runs with the caller's
\* flag; an optimize with nothing staged calls neither; initialized becomes
\* true only in an optimize whose initializeOptimization succeeded and false
\* only in clear.
InitializationDiscipline ==
    /\ last_call'.op = "optimize" =>
          \A online \in BOOLEAN, o \in OptimizeOutcomes, est \in [Movable -> Poses],
             order \in GridOrders :
             Optimize(online, o, est, order) =>
               LET flag == IF online THEN "online" ELSE "offline"
                   staged == vertices_to_add # {} \/ edges_to_add # {}
               IN
               /\ last_call'.call = "initializeOptimization" =>
                     /\ ~initialized
                     /\ staged
                     /\ last_call'.result = "err" => (last_call'.run = "offline" /\ initialized')
                     /\ last_call'.result # "err" => (last_call'.run = "none" /\ ~initialized')
               /\ last_call'.call = "updateInitialization" =>
                     /\ initialized
                     /\ staged
                     /\ last_call'.result = "err" =>
                           /\ last_call'.run = flag
                           /\ activeVertices' \ activeVertices \subseteq vertices_to_add
                           /\ activeEdges' \ activeEdges \subseteq edges_to_add
                           /\ \A v \in vertices_to_add :
                                 ~vertices[v].fixed => v \in activeVertices'
                     /\ last_call'.result # "err" => last_call'.run = "none"
               /\ (staged /\ ~NothingToOptimize /\ last_call'.result # "abort") =>
                     last_call'.call = (IF initialized THEN "updateInitialization"
                                                      ELSE "initializeOptimization")
               /\ (~staged /\ last_call'.result = "err") =>
                     (last_call'.call = "none" /\ last_call'.run = flag)
    /\ (~initialized /\ initialized') =>
          /\ last_call'.op = "optimize"
          /\ last_call'.call = "initializeOptimization"
          /\ last_call'.result = "err"
    /\ (initialized /\ ~initialized') => last_call'.op = "clear"

\* C20 as stated: initializeOptimization is called once per trajectory, in the
\* first optimize that commits staged items (every optimize that calls it
\* commits), and the rest of the discipline holds.
C20_InitializedOnce ==
    [][ /\ InitializationDiscipline
        /\ last_call'.call = "initializeOptimization" => last_call'.result = "err" ]_vars

\* C20 as amended: initializeOptimization succeeds once per trajectory, in the
\* first optimize that commits staged items; an optimize in which it fails
\* commits nothing and leaves initialized false, so that the next optimize
\* with staged items calls it again; and the rest of the discipline holds.
C20_InitializedOnceSuccessfully ==
    [][ /\ InitializationDiscipline
        /\ (last_call'.call = "initializeOptimization" /\ last_call'.result # "err")
              => /\ UNCHANGED <<initialized, staging>>
                 /\ ~NothingToOptimize'
                 /\ SolverCall(TRUE)'.call = "initializeOptimization" ]_vars

\* an initialized instance has committed staged items in an online run
C20_Witness ==
    /\ last_call.op = "optimize"
    /\ last_call.call = "updateInitialization"
    /\ last_call.result = "err"
    /\ last_call.run = "online"
    /\ initialized
    /\ vertices_to_add = {}

\* the candidate for t on s is new or was replaced in this step
CandidateAdded(s, t) ==
    /\ t \in DOMAIN vertices'[s].candidates
    /\ \/ t \notin DOMAIN vertices[s].candidates
       \/ vertices'[s].candidates[t] # vertices[s].candidates[t]

\* s is a source findEdgeCandidates may search from and t a target the search
\* from s may pair it with
SearchablePair(s, t) ==
    /\ s \in activeVertices
    /\ vertices[s].cloud
    /\ ~vertices[s].has_run
    /\ t \in activeVertices
    /\ vertices[t].cloud
    /\ IdDistance(s, t) >= 2
    /\ EdgesBetween(edges, s, t) = {}

\* C21: findEdgeCandidates adds a candidate for a pair only when one of the
\* two is an active vertex with a cloud whose search has not run, the other is
\* another active vertex with a cloud, their ids are at least 2 apart, no edge
\* joins them and d, the smaller of the Mahalanobis and the Euclidean
\* distance, is at most max_sensor_distance; the candidate is then on both
\* vertices with distance d, not stale, and new_edges_added is true; the flag
\* is set only with a candidate; no edge is added, nothing is staged, and on
\* the vertices only candidates and search states change.
C21_DiscoveryRule ==
    [][ last_call'.op = "findEdgeCandidates" =>
        /\ UNCHANGED <<edges, activeVertices, activeEdges, staging, shadow>>
        /\ DOMAIN vertices' = DOMAIN vertices
        /\ \A v \in VertexIds :
              /\ vertices'[v].estimate = vertices[v].estimate
              /\ vertices'[v].cloud = vertices[v].cloud
              /\ vertices'[v].fixed = vertices[v].fixed
              /\ DOMAIN vertices[v].candidates \subseteq DOMAIN vertices'[v].candidates
        /\ (new_edges_added' # new_edges_added) =>
              (new_edges_added' /\ \E s, t \in VertexIds : CandidateAdded(s, t))
        /\ \A covered \in SUBSET Searchable, mahal \in [FarPairs -> MahalanobisValues] :
              FindEdgeCandidates(covered, mahal) =>
                \A s, t \in VertexIds :
                   CandidateAdded(s, t) =>
                     /\ SearchablePair(s, t) \/ SearchablePair(t, s)
                     /\ LET m == mahal[Unordered(s, t)]
                            e == Norm(vertices[t].estimate, vertices[s].estimate)
                            d == IF m < e THEN m ELSE e
                        IN  /\ d <= gicp_config
                            /\ vertices'[s].candidates[t] = [distance |-> d, stale |-> FALSE]
                            /\ s \in DOMAIN vertices'[t].candidates
                            /\ vertices'[t].candidates[s] = [distance |-> d, stale |-> FALSE]
                     /\ new_edges_added' ]_vars

\* a search has found a pair at distance 1 (of a Euclidean distance 1 and a
\* Mahalanobis distance 1) within a sensor range of 1
C21_Witness ==
    /\ last_call.op = "findEdgeCandidates"
    /\ new_edges_added
    /\ gicp_config = 1
    /\ \E s, t \in VertexIds :
          /\ t \in DOMAIN vertices[s].candidates
          /\ s \in DOMAIN vertices[t].candidates
          /\ vertices[s].candidates[t] = [distance |-> 1, stale |-> FALSE]
          /\ vertices[t].candidates[s] = [distance |-> 1, stale |-> FALSE]
          /\ Norm(vertices[t].estimate, vertices[s].estimate) = 1

\* C22: in every reachable state, for any two vertices that both have a cloud
\* attached, one holds a candidate for the other if and only if the other
\* holds one for it, and the two entries have the same stale flag and the
\* same distance.
C22_CandidatesSymmetric ==
    \A s, t \in VertexIds :
        (vertices[s].cloud /\ vertices[t].cloud) =>
            /\ (t \in DOMAIN vertices[s].candidates) <=> (s \in DOMAIN vertices[t].candidates)
            /\ t \in DOMAIN vertices[s].candidates =>
                  vertices[s].candidates[t] = vertices[t].candidates[s]

\* the same candidate was tested twice and found invalid: two vertices with
\* clouds hold it for each other, stale on both
C22_Witness ==
    /\ last_call.op = "tryBestEdgeCandidates"
    /\ last_call.result = "ok"
    /\ last_call.tested = MaxCount
    /\ \E s, t \in VertexIds :
          /\ vertices[s].cloud
          /\ vertices[t].cloud
          /\ t \in DOMAIN vertices[s].candidates
          /\ s \in DOMAIN vertices[t].candidates
          /\ vertices[s].candidates[t].stale
          /\ vertices[t].candidates[s].stale
          /\ EdgesBetween(edges, s, t) = {}

\* C23: in every reachable state no vertex holds a candidate for a target it
\* shares an edge of the primary graph with: a pair that got its loop-closure
\* edge has lost the candidate on both vertices and no later
\* findEdgeCandidates brings it back.
C23_NoCandidateAlongEdge ==
    \A s \in VertexIds : \A t \in DOMAIN vertices[s].candidates :
        EdgesBetween(edges, s, t) = {}

\* a search has run over a graph with a loop-closure edge whose two vertices
\* have their clouds, and neither holds a candidate for the other
C23_Witness ==
    /\ last_call.op = "findEdgeCandidates"
    /\ last_call.result = "ok"
    /\ \E e \in edges :
          /\ e.kind = "loop"
          /\ vertices[e.src].cloud
          /\ vertices[e.tgt].cloud
          /\ e.tgt \notin DOMAIN vertices[e.src].candidates
          /\ e.src \notin DOMAIN vertices[e.tgt].candidates

\* C24: when findEdgeCandidates returns, every active vertex with a cloud has
\* has_run set: every source it considered is marked as searched.
C24_EverySourceMarked ==
    [][ (last_call'.op = "findEdgeCandidates" /\ last_call'.result = "ok")
        => \A v \in activeVertices : vertices'[v].cloud => vertices'[v].has_run ]_vars

====
